---- MODULE Spec2Model ----
(***************************************************************************)
(* Model of the DGT vehicle report processor: the record parsers of        *)
(* src/src/pdf_parser.py, the rule engine of src/src/business_logic.py and *)
(* the two batch loops (src/src/main.py and src/app.py).                   *)
(*                                                                         *)
(* Text is a sequence of one-character strings, so that upper(), split(),  *)
(* join(), replace() and the substring test of Python are computed and not *)
(* assumed.  A datetime is the tuple <<year, month, day>> (every datetime  *)
(* the parser builds is a midnight), None is the empty tuple.  A date as   *)
(* written in the document is the tuple <<dd, mm, yyyy>> of the numbers    *)
(* its three digit groups spell.                                           *)
(***************************************************************************)
EXTENDS Integers, Sequences, FiniteSets, TLC

VARIABLES
    pc,           \* position of the run: "parse", "process", "done", ...
    cliente_nif,  \* BusinessLogic.cliente_nif (<<>> is None)
    now,          \* the date datetime.now() falls on
    doc,          \* the text of the document, by section
    data,         \* VehicleData built by DGTParser.parse
    result,       \* the dictionary process_vehicle returns
    text_a,       \* SpecMatch: the text handed to _matches_client
    text_b,       \* SpecMatch: the client it is matched against
    matched,      \* SpecMatch: what _matches_client returned
    runs,         \* SpecRerun: the results of the runs made so far
    batch,        \* SpecBatch: the documents of the batch
    idx,          \* SpecBatch: loop index of the batch loop
    results,      \* SpecBatch: the results list of the loop
    errors        \* SpecBatch: documents reported with st.error

vars == <<pc, cliente_nif, now, doc, data, result, text_a, text_b, matched,
          runs, batch, idx, results, errors>>

None == <<>>

(***************************************************************************)
(* Python str operations                                                   *)
(***************************************************************************)
Whitespace == {" ", "\t", "\n"}

LowerCase == <<"a","b","c","d","e","f","g","h","i","j","k","l","m",
               "n","o","p","q","r","s","t","u","v","w","x","y","z","í">>
UpperCase == <<"A","B","C","D","E","F","G","H","I","J","K","L","M",
               "N","O","P","Q","R","S","T","U","V","W","X","Y","Z","Í">>

\* str.upper() of one character
UpperChar(c) ==
    IF \E i \in 1..Len(LowerCase) : LowerCase[i] = c
    THEN UpperCase[CHOOSE i \in 1..Len(LowerCase) : LowerCase[i] = c]
    ELSE c

\* str.upper()
Upper(s) == [i \in 1..Len(s) |-> UpperChar(s[i])]

\* sub in s
Contains(sub, s) ==
    \E i \in 0..(Len(s) - Len(sub)) : SubSeq(s, i + 1, i + Len(sub)) = sub

\* str.split(): the maximal runs of non-whitespace characters
RECURSIVE SplitFrom(_, _, _)
SplitFrom(s, i, word) ==
    IF i > Len(s)
    THEN IF word = <<>> THEN <<>> ELSE <<word>>
    ELSE IF s[i] \in Whitespace
         THEN IF word = <<>>
              THEN SplitFrom(s, i + 1, <<>>)
              ELSE <<word>> \o SplitFrom(s, i + 1, <<>>)
         ELSE SplitFrom(s, i + 1, Append(word, s[i]))

Split(s) == SplitFrom(s, 1, <<>>)

\* ' '.join(words)
RECURSIVE JoinSpace(_)
JoinSpace(words) ==
    IF words = <<>> THEN <<>>
    ELSE IF Len(words) = 1 THEN words[1]
    ELSE words[1] \o <<" ">> \o JoinSpace(Tail(words))

\* str.replace(old, new) for a one-character old
RECURSIVE ReplaceChar(_, _, _)
ReplaceChar(s, old, new) ==
    IF s = <<>> THEN <<>>
    ELSE (IF s[1] = old THEN new ELSE <<s[1]>>) \o ReplaceChar(Tail(s), old, new)

\* str.strip()
RECURSIVE LStrip(_)
LStrip(s) ==
    IF s /= <<>> /\ s[1] \in Whitespace THEN LStrip(Tail(s)) ELSE s

RECURSIVE RStrip(_)
RStrip(s) ==
    IF s /= <<>> /\ s[Len(s)] \in Whitespace
    THEN RStrip(SubSeq(s, 1, Len(s) - 1)) ELSE s

Strip(s) == LStrip(RStrip(s))

(***************************************************************************)
(* datetime                                                                *)
(***************************************************************************)
IsLeap(y) == (y % 4 = 0 /\ y % 100 /= 0) \/ y % 400 = 0

DaysInMonth(y, m) ==
    IF m = 2 THEN (IF IsLeap(y) THEN 29 ELSE 28)
    ELSE IF m \in {4, 6, 9, 11} THEN 30 ELSE 31

RECURSIVE DaysBeforeMonth(_, _)
DaysBeforeMonth(y, m) ==
    IF m <= 1 THEN 0 ELSE DaysBeforeMonth(y, m - 1) + DaysInMonth(y, m - 1)

DaysBeforeYear(y) ==
    (y - 1) * 365 + (y - 1) \div 4 - (y - 1) \div 100 + (y - 1) \div 400

\* datetime.toordinal(): what comparisons and differences of midnights use
Ordinal(dt) == DaysBeforeYear(dt[1]) + DaysBeforeMonth(dt[1], dt[2]) + dt[3]

\* datetime.min
DatetimeMin == <<1, 1, 1>>

\* (a - b).days
DaysBetween(a, b) == Ordinal(a) - Ordinal(b)

Pad2(n) == IF n < 10 THEN "0" \o ToString(n) ELSE ToString(n)

\* dt.strftime('%d/%m/%Y'), for the four-digit years of the documents
Strftime(dt) == Pad2(dt[3]) \o "/" \o Pad2(dt[2]) \o "/" \o ToString(dt[1])

(***************************************************************************)
(* DGTParser: field parsers                                                *)
(***************************************************************************)
Digits == <<"0","1","2","3","4","5","6","7","8","9">>

IsDigit(c) == \E i \in 1..10 : Digits[i] = c

DigitValue(c) == (CHOOSE i \in 1..10 : Digits[i] = c) - 1

\* DGTParser._parse_date: strptime(date_str, '%d/%m/%Y'), None when the text
\* is empty, the placeholder, or no date of the calendar
parse_date(date_str) ==
    IF date_str = <<>> THEN None
    ELSE LET dd == date_str[1]
             mm == date_str[2]
             yyyy == date_str[3]
         IN IF /\ yyyy >= 1
               /\ mm \in 1..12
               /\ dd >= 1
               /\ dd <= DaysInMonth(yyyy, mm)
            THEN <<yyyy, mm, dd>>
            ELSE None

\* int(s) of a run of decimal digits; -1 stands for the ValueError
RECURSIVE IntOf(_, _)
IntOf(s, acc) ==
    IF s = <<>> THEN acc
    ELSE IF IsDigit(s[1]) THEN IntOf(Tail(s), acc * 10 + DigitValue(s[1]))
    ELSE -1

\* DGTParser._parse_km
parse_km(km_str) ==
    IF km_str = <<>> \/ km_str = <<"-", "-", "-">> THEN 0
    ELSE LET cleaned == ReplaceChar(ReplaceChar(km_str, ".", <<>>), " ", <<>>)
             n == IF cleaned = <<>> THEN -1 ELSE IntOf(cleaned, 0)
         IN IF n < 0 THEN 0 ELSE n

\* number of digits of s from position i on, at most most
RECURSIVE DigitRun(_, _, _)
DigitRun(s, i, most) ==
    IF most = 0 \/ i > Len(s) \/ ~IsDigit(s[i]) THEN 0
    ELSE 1 + DigitRun(s, i + 1, most - 1)

\* end of the longest (?:\.\d{3})* that starts at position i
RECURSIVE DotGroupsEnd(_, _)
DotGroupsEnd(s, i) ==
    IF i <= Len(s) /\ s[i] = "." /\ DigitRun(s, i + 1, 3) = 3
    THEN DotGroupsEnd(s, i + 4)
    ELSE i

\* re.search(r'(\d{1,3}(?:\.\d{3})*|\d+)', remaining): the first alternative
\* matches wherever a digit stands, so the second one is never tried.
\* <<>> when there is no match.
km_match(remaining) ==
    IF \A i \in 1..Len(remaining) : ~IsDigit(remaining[i]) THEN <<>>
    ELSE LET start == CHOOSE i \in 1..Len(remaining) :
                          /\ IsDigit(remaining[i])
                          /\ \A j \in 1..(i - 1) : ~IsDigit(remaining[j])
             stop == DotGroupsEnd(remaining, start + DigitRun(remaining, start, 3))
         IN SubSeq(remaining, start, stop - 1)

(***************************************************************************)
(* DGTParser: the history sections.  A section is given as the lines the   *)
(* section pattern captured; a row is given as the groups its row pattern  *)
(* captured.  A section that is not found is the empty sequence of lines:  *)
(* both leave the history list empty.                                      *)
(***************************************************************************)

\* DGTParser._parse_renting: es_renting from the captured yes/no token
parse_renting(token) ==
    token /= <<>> /\ Upper(token) \in {<<"S", "Í">>, <<"S", "I">>}

\* DGTParser._parse_titular
parse_titular(filiacion) == Strip(filiacion)

\* DGTParser._parse_arrendatario: the records, in the order of the rows
parse_arrendatarios(rows) ==
    [i \in 1..Len(rows) |->
        [fecha_inicio |-> parse_date(rows[i].inicio),
         fecha_fin    |-> parse_date(rows[i].fin),
         filiacion    |-> Strip(rows[i].filiacion)]]

\* DGTParser._parse_arrendatario: arrendatario_actual is the lessee of the
\* last row whose end date is after datetime.now()
RECURSIVE arrendatario_actual_of(_, _, _)
arrendatario_actual_of(recs, t, actual) ==
    IF recs = <<>> THEN actual
    ELSE LET r == Head(recs)
         IN arrendatario_actual_of(
                Tail(recs), t,
                IF r.fecha_fin /= None /\ Ordinal(r.fecha_fin) > Ordinal(t)
                THEN r.filiacion ELSE actual)

\* DGTParser._parse_historial_titulares
parse_historial_titulares(rows) ==
    [i \in 1..Len(rows) |->
        [fecha_inicio |-> parse_date(rows[i].inicio),
         fecha_fin    |-> parse_date(rows[i].fin),
         tipo         |-> rows[i].tipo]]

\* DGTParser._parse_historial_bajas
parse_historial_bajas(rows) ==
    [i \in 1..Len(rows) |->
        [fecha_inicio |-> parse_date(rows[i].inicio),
         fecha_fin    |-> parse_date(rows[i].fin),
         tipo         |-> rows[i].tipo,
         motivo       |-> rows[i].motivo]]

\* the record an inspection header line opens
itv_of_line(line) ==
    LET km == km_match(Strip(line.remaining))
    IN [fecha_itv       |-> parse_date(line.fecha_itv),
        fecha_caducidad |-> parse_date(line.fecha_cad),
        estacion        |-> line.estacion,
        resultado       |-> ReplaceChar(Upper(line.resultado), " ", <<"_">>),
        kilometros      |-> IF km /= <<>> THEN parse_km(km) ELSE 0,
        defectos        |-> <<>>]

\* mutant of itv_line_step: a header line does not save the open record
itv_line_step_no_save(st, line) ==
    IF line.kind \in {"blank", "colhdr"} THEN st
    ELSE IF line.kind = "header"
    THEN [current |-> <<itv_of_line(line)>>, out |-> st.out]
    ELSE IF st.current /= <<>> /\ line.kind = "defect"
    THEN [current |-> <<[st.current[1] EXCEPT
                          !.defectos = Append(@, line.text)]>>,
          out     |-> st.out]
    ELSE st

\* one turn of the loop over the lines: st = [current, out], current = <<>>
\* is "no record open", <<itv>> is the open record
itv_line_step(st, line) ==
    IF line.kind \in {"blank", "colhdr"} THEN st
    ELSE IF line.kind = "header"
    THEN [current |-> <<itv_of_line(line)>>,
          out     |-> st.out \o st.current]
    ELSE IF st.current /= <<>> /\ line.kind = "defect"
    THEN [current |-> <<[st.current[1] EXCEPT
                          !.defectos = Append(@, line.text)]>>,
          out     |-> st.out]
    ELSE st

RECURSIVE itv_lines_fold(_, _)
itv_lines_fold(st, lines) ==
    IF lines = <<>> THEN st
    ELSE itv_lines_fold(itv_line_step(st, Head(lines)), Tail(lines))

\* '; '.join(defectos)
RECURSIVE JoinSemicolon(_)
JoinSemicolon(ds) ==
    IF ds = <<>> THEN ""
    ELSE IF Len(ds) = 1 THEN ds[1]
    ELSE ds[1] \o "; " \o JoinSemicolon(Tail(ds))

\* DGTParser._parse_historial_itvs
parse_historial_itvs(lines) ==
    LET st  == itv_lines_fold([current |-> <<>>, out |-> <<>>], lines)
        all == st.out \o st.current
    IN [i \in 1..Len(all) |->
          [all[i] EXCEPT !.defectos = JoinSemicolon(@)]]

\* DGTParser.parse at time t
parse(d, t) ==
    LET arr == parse_arrendatarios(d.arrendatario)
    IN [matricula               |-> d.matricula,
        titular_actual          |-> parse_titular(d.titular),
        es_renting              |-> parse_renting(d.renting),
        arrendatario_actual     |-> arrendatario_actual_of(arr, t, <<>>),
        historial_titulares     |-> parse_historial_titulares(d.titulares),
        historial_arrendatarios |-> arr,
        historial_itvs          |-> parse_historial_itvs(d.itvs),
        historial_bajas         |-> parse_historial_bajas(d.bajas)]

(***************************************************************************)
(* BusinessLogic: client matching and eligibility                          *)
(***************************************************************************)

\* BusinessLogic._normalize_text
normalize_text(text) == JoinSpace(Split(Upper(text)))

\* mutant of matches_client: only 'client in text' is tested
matches_client_one_way(cliente, text) ==
    IF cliente = <<>> THEN TRUE
    ELSE \/ Contains(normalize_text(cliente), normalize_text(text))
         \/ Contains(ReplaceChar(normalize_text(cliente), " ", <<>>),
                     ReplaceChar(normalize_text(text), " ", <<>>))

\* mutant of matches_client: the test without spaces is left out
matches_client_spaced(cliente, text) ==
    IF cliente = <<>> THEN TRUE
    ELSE \/ Contains(normalize_text(cliente), normalize_text(text))
         \/ Contains(normalize_text(text), normalize_text(cliente))

\* BusinessLogic._matches_client, with self.cliente_nif = cliente
\* (None and '' are both falsy: both are <<>>)
matches_client(cliente, text) ==
    IF cliente = <<>> THEN TRUE
    ELSE LET text_normalized    == normalize_text(text)
             cliente_normalized == normalize_text(cliente)
             text_no_spaces     == ReplaceChar(text_normalized, " ", <<>>)
             cliente_no_spaces  == ReplaceChar(cliente_normalized, " ", <<>>)
         IN IF Contains(cliente_normalized, text_normalized) THEN TRUE
            ELSE IF Contains(text_normalized, cliente_normalized) THEN TRUE
            ELSE IF \/ Contains(cliente_no_spaces, text_no_spaces)
                    \/ Contains(text_no_spaces, cliente_no_spaces) THEN TRUE
            ELSE FALSE

\* mutant of check_titularity: a titleholder that was not found fails
check_titularity_found(cliente, d) ==
    IF cliente = <<>> THEN TRUE
    ELSE d.titular_actual /= <<>> /\ matches_client(cliente, d.titular_actual)

\* BusinessLogic._check_titularity
check_titularity(cliente, d) ==
    IF cliente = <<>> THEN TRUE
    ELSE matches_client(cliente, d.titular_actual)

\* the threshold of _check_renting, in months
RentingMonths == 14
\* the 30.44 days of a month, times 100
DaysPerMonthTimes100 == 3044

\* mutant of months_exceed: a month counted as 30 days
months_exceed_30_days(days) == days > RentingMonths * 30

\* (days / 30.44) > 14, both sides times 3044
months_exceed(days) == days * 100 > RentingMonths * DaysPerMonthTimes100

\* the body of the loop of _check_renting over historial_arrendatarios:
\* TRUE when this record makes the loop return True
renting_record_passes(cliente, arrendatario, t) ==
    /\ matches_client(cliente, arrendatario.filiacion)
    /\ arrendatario.fecha_inicio /= None
    /\ IF arrendatario.fecha_fin = None
       THEN months_exceed(DaysBetween(t, arrendatario.fecha_inicio))
       ELSE months_exceed(DaysBetween(arrendatario.fecha_fin,
                                      arrendatario.fecha_inicio))

\* BusinessLogic._check_renting at time t
check_renting(cliente, d, t) ==
    IF cliente = <<>> THEN d.es_renting
    ELSE IF d.es_renting
    THEN \/ /\ d.arrendatario_actual /= <<>>
            /\ matches_client(cliente, d.arrendatario_actual)
         \/ \E i \in 1..Len(d.historial_arrendatarios) :
                renting_record_passes(cliente, d.historial_arrendatarios[i], t)
    ELSE FALSE

(***************************************************************************)
(* BusinessLogic: commentary rules                                         *)
(***************************************************************************)
MsgNoCae       == "El vehículo no es susceptible de generar CAEs"
MsgSinHistorial == "Sin historial de ITVs"
MsgSinKm       == "ITVs válidas sin lecturas de kilometraje"
MsgSinValidas  == "Sin ITVs válidas (todas DESFAVORABLE/NEGATIVA)"
MsgSoloUna     == "Solo una ITV válida con kilometraje consistente"
MsgReseteo     == "Reseteo de cuentakilómetros detectado"
\* the source writes the comparison sign as one character
MsgDias        == "Días entre <= 0, km 1 año = N/A"
MsgRentingActivo == "Renting actualmente activo"

MsgBaja(fecha_inicio, fecha_fin) ==
    "Vehículo de baja del " \o Strftime(fecha_inicio) \o " hasta el "
        \o (IF fecha_fin /= None THEN Strftime(fecha_fin) ELSE "Actual")
MsgCambioTitularidad(fecha) == "Cambio de titularidad el " \o Strftime(fecha)
MsgInicioRenting(fecha) == "Inicio de renting el " \o Strftime(fecha)
MsgFinRenting(fecha) == "Fin de renting el " \o Strftime(fecha)

\* result['comentarios'].append(msg)
AddComment(res, msg) == [res EXCEPT !.comentarios = Append(@, msg)]

\* cutoff_date = datetime(2023, 1, 1)
cutoff_date == <<2023, 1, 1>>

\* fecha and fecha >= cutoff_date
on_or_after_cutoff(fecha) ==
    fecha /= None /\ Ordinal(fecha) >= Ordinal(cutoff_date)

\* mutant of check_bajas_from: the loop breaks after its first message
RECURSIVE check_bajas_first_only(_, _)
check_bajas_first_only(bajas, res) ==
    IF bajas = <<>> THEN res
    ELSE LET baja == Head(bajas)
         IN IF on_or_after_cutoff(baja.fecha_inicio)
            THEN AddComment(res, MsgBaja(baja.fecha_inicio, baja.fecha_fin))
            ELSE check_bajas_first_only(Tail(bajas), res)

\* BusinessLogic._check_bajas: the loop over the records
RECURSIVE check_bajas_from(_, _)
check_bajas_from(bajas, res) ==
    IF bajas = <<>> THEN res
    ELSE LET baja == Head(bajas)
         IN check_bajas_from(
                Tail(bajas),
                IF on_or_after_cutoff(baja.fecha_inicio)
                THEN AddComment(res, MsgBaja(baja.fecha_inicio, baja.fecha_fin))
                ELSE res)

\* BusinessLogic._check_bajas
check_bajas(d, res) == check_bajas_from(d.historial_bajas, res)

\* the titularidad loop of _check_titularidad_renting_changes: the first
\* record in list order that starts on or after the cutoff is reported,
\* then the loop breaks
check_titularidad_changes(d, res) ==
    LET hits == {i \in 1..Len(d.historial_titulares) :
                    on_or_after_cutoff(d.historial_titulares[i].fecha_inicio)}
    IN IF hits = {} THEN res
       ELSE LET first == CHOOSE i \in hits : \A j \in hits : i <= j
            IN AddComment(res, MsgCambioTitularidad(
                                 d.historial_titulares[first].fecha_inicio))

\* the renting part of _check_titularidad_renting_changes
check_renting_changes(d, res) ==
    IF d.es_renting /\ d.historial_arrendatarios /= <<>>
    THEN LET arrendatario == d.historial_arrendatarios[1]
             fecha_inicio == arrendatario.fecha_inicio
             fecha_fin    == arrendatario.fecha_fin
             r1 == IF on_or_after_cutoff(fecha_inicio)
                   THEN AddComment(res, MsgInicioRenting(fecha_inicio))
                   ELSE res
             r2 == IF on_or_after_cutoff(fecha_fin)
                   THEN AddComment(r1, MsgFinRenting(fecha_fin))
                   ELSE r1
         IN IF fecha_inicio /= None /\ fecha_fin = None
            THEN AddComment(r2, MsgRentingActivo)
            ELSE r2
    ELSE res

\* BusinessLogic._check_titularidad_renting_changes
check_titularidad_renting_changes(d, res) ==
    check_renting_changes(d, check_titularidad_changes(d, res))

(***************************************************************************)
(* BusinessLogic: inspection metrics                                       *)
(***************************************************************************)
S_DESFAVORABLE == <<"D","E","S","F","A","V","O","R","A","B","L","E">>
S_NEGATIVA     == <<"N","E","G","A","T","I","V","A">>

\* the sort key: x['fecha_itv'] if x['fecha_itv'] else datetime.min
itv_key(itv) ==
    IF itv.fecha_itv /= None THEN Ordinal(itv.fecha_itv)
    ELSE Ordinal(DatetimeMin)

\* x goes behind every record whose key is not smaller: the sort is stable
RECURSIVE insert_desc(_, _)
insert_desc(s, x) ==
    IF s = <<>> THEN <<x>>
    ELSE IF itv_key(Head(s)) >= itv_key(x)
         THEN <<Head(s)>> \o insert_desc(Tail(s), x)
         ELSE <<x>> \o s

\* mutant of itvs_sorted: the history is left in document order
itvs_document_order(itvs) == itvs

\* sorted(historial_itvs, key=..., reverse=True)
RECURSIVE itvs_sorted(_)
itvs_sorted(itvs) ==
    IF itvs = <<>> THEN <<>>
    ELSE insert_desc(itvs_sorted(SubSeq(itvs, 1, Len(itvs) - 1)),
                     itvs[Len(itvs)])

\* the filter of the loop over itvs_sorted: the record is kept
is_valid_itv(itv) ==
    LET resultado == Upper(itv.resultado)
    IN ~(Contains(S_DESFAVORABLE, resultado) \/ Contains(S_NEGATIVA, resultado))

\* valid_itvs
valid_itvs(itvs) == SelectSeq(itvs_sorted(itvs), is_valid_itv)

has_km(itv) == itv.kilometros > 0

\* itvs_with_km
itvs_with_km(itvs) == SelectSeq(valid_itvs(itvs), has_km)

\* mutant of km_1_ano_of: a year of 360 days
km_1_ano_of_360(km_itvs, dias) == (km_itvs * 360) \div dias

\* int((km_itvs * 365) / dias), for km_itvs >= 0 and dias > 0
km_1_ano_of(km_itvs, dias) == (km_itvs * 365) \div dias

\* the km part of _calculate_itv_metrics, entered once both dates are set
km_metrics(res, dias) ==
    IF res.lectura_k_ult > 0 /\ res.lectura_k_penulti > 0
    THEN IF res.lectura_k_ult < res.lectura_k_penulti
         THEN [AddComment(res, MsgReseteo) EXCEPT !.km_itvs = 0, !.km_1_ano = 0]
         ELSE LET km == res.lectura_k_ult - res.lectura_k_penulti
                  r1 == [res EXCEPT !.km_itvs = km]
              IN IF dias > 0
                 THEN [r1 EXCEPT !.km_1_ano = km_1_ano_of(km, dias)]
                 ELSE AddComment(r1, MsgDias)
    ELSE res

\* mutant of working_metrics: the two selected records are not compared
working_metrics_no_safety_check(working_itvs, res) ==
    LET ultima    == working_itvs[1]
        penultima == working_itvs[2]
        r1 == [res EXCEPT !.fecha_ult = ultima.fecha_itv,
                          !.lectura_k_ult = ultima.kilometros,
                          !.fecha_penulti = penultima.fecha_itv,
                          !.lectura_k_penulti = penultima.kilometros]
    IN IF r1.fecha_ult /= None /\ r1.fecha_penulti /= None
       THEN LET dias == DaysBetween(r1.fecha_ult, r1.fecha_penulti)
            IN km_metrics([r1 EXCEPT !.dias_entre = dias], dias)
       ELSE r1

\* _calculate_itv_metrics from the choice of working_itvs on
working_metrics(working_itvs, res) ==
    IF Len(working_itvs) < 2
    THEN IF working_itvs /= <<>>
         THEN AddComment([res EXCEPT
                            !.fecha_ult = working_itvs[1].fecha_itv,
                            !.lectura_k_ult = working_itvs[1].kilometros],
                         MsgSoloUna)
         ELSE res
    ELSE LET ultima    == working_itvs[1]
             penultima == working_itvs[2]
         IN IF /\ ultima.fecha_itv = penultima.fecha_itv
               /\ ultima.kilometros = penultima.kilometros
            THEN AddComment(res, MsgNoCae)
            ELSE LET r1 == [res EXCEPT
                              !.fecha_ult = ultima.fecha_itv,
                              !.lectura_k_ult = ultima.kilometros,
                              !.fecha_penulti = penultima.fecha_itv,
                              !.lectura_k_penulti = penultima.kilometros]
                     r2 == IF r1.fecha_ult /= None /\ r1.fecha_penulti /= None
                           THEN LET dias == DaysBetween(r1.fecha_ult,
                                                        r1.fecha_penulti)
                                IN km_metrics([r1 EXCEPT !.dias_entre = dias],
                                              dias)
                           ELSE r1
                 IN [r2 EXCEPT !.km_int = 0, !.km_nac = 0]

\* mutant of calculate_itv_metrics: a single reading goes on to the
\* working set instead of ending the computation
calculate_itv_metrics_one_reading(d, res) ==
    IF d.historial_itvs = <<>> THEN AddComment(res, MsgSinHistorial)
    ELSE LET valid   == valid_itvs(d.historial_itvs)
             with_km == itvs_with_km(d.historial_itvs)
         IN IF Len(with_km) >= 1 THEN working_metrics(with_km, res)
            ELSE IF valid /= <<>>
                 THEN [AddComment(res, MsgSinKm) EXCEPT
                          !.fecha_ult = valid[1].fecha_itv]
                 ELSE AddComment(res, MsgSinValidas)

\* mutant of calculate_itv_metrics: a single reading is handled as none
calculate_itv_metrics_single_as_none(d, res) ==
    IF d.historial_itvs = <<>> THEN AddComment(res, MsgSinHistorial)
    ELSE LET valid   == valid_itvs(d.historial_itvs)
             with_km == itvs_with_km(d.historial_itvs)
         IN IF Len(with_km) >= 2 THEN working_metrics(with_km, res)
            ELSE IF valid /= <<>>
                 THEN [AddComment(res, MsgSinKm) EXCEPT
                          !.fecha_ult = valid[1].fecha_itv]
                 ELSE AddComment(res, MsgSinValidas)

\* mutant of calculate_itv_metrics: the empty history is not told apart
calculate_itv_metrics_no_empty_check(d, res) ==
    LET valid   == valid_itvs(d.historial_itvs)
        with_km == itvs_with_km(d.historial_itvs)
    IN IF Len(with_km) >= 2 THEN working_metrics(with_km, res)
       ELSE IF Len(with_km) = 1 THEN AddComment(res, MsgNoCae)
       ELSE IF valid /= <<>>
            THEN [AddComment(res, MsgSinKm) EXCEPT
                     !.fecha_ult = valid[1].fecha_itv]
            ELSE AddComment(res, MsgSinValidas)

\* BusinessLogic._calculate_itv_metrics
calculate_itv_metrics(d, res) ==
    IF d.historial_itvs = <<>> THEN AddComment(res, MsgSinHistorial)
    ELSE LET valid   == valid_itvs(d.historial_itvs)
             with_km == itvs_with_km(d.historial_itvs)
         IN IF Len(with_km) >= 2 THEN working_metrics(with_km, res)
            ELSE IF Len(with_km) = 1 THEN AddComment(res, MsgNoCae)
            ELSE IF valid /= <<>>
                 THEN [AddComment(res, MsgSinKm) EXCEPT
                          !.fecha_ult = valid[1].fecha_itv]
                 ELSE AddComment(res, MsgSinValidas)

(***************************************************************************)
(* BusinessLogic.process_vehicle                                           *)
(***************************************************************************)
\* the result dictionary process_vehicle starts from
empty_result(d) ==
    [matricula         |-> d.matricula,
     fecha_penulti     |-> None,
     lectura_k_penulti |-> 0,
     fecha_ult         |-> None,
     lectura_k_ult     |-> 0,
     dias_entre        |-> 0,
     km_itvs           |-> 0,
     km_1_ano          |-> 0,
     km_int            |-> 0,
     km_nac            |-> 0,
     comentarios       |-> <<>>]

\* RULE 1 & 2 of process_vehicle: the vehicle goes on to the later rules
is_eligible(cliente, d, t) ==
    check_titularity(cliente, d) \/ check_renting(cliente, d, t)

\* mutant of process_vehicle: the ineligible branch does not return
process_vehicle_no_return(cliente, d, t) ==
    LET res == IF ~is_eligible(cliente, d, t)
               THEN AddComment(empty_result(d), MsgNoCae)
               ELSE empty_result(d)
    IN calculate_itv_metrics(d,
            check_titularidad_renting_changes(d, check_bajas(d, res)))

\* BusinessLogic.process_vehicle at time t
process_vehicle(cliente, d, t) ==
    IF ~is_eligible(cliente, d, t)
    THEN AddComment(empty_result(d), MsgNoCae)
    ELSE calculate_itv_metrics(d,
            check_titularidad_renting_changes(d,
                check_bajas(d, empty_result(d))))

(***************************************************************************)
(* Documents: the texts the runs below are made on                         *)
(***************************************************************************)
T_ACME        == <<"A","C","M","E">>
T_ACME_SL     == <<"A","C","M","E"," ","S","L">>
T_OTRO_SL     == <<"O","T","R","O"," ","S","L">>
T_TRANSPORTE  == <<"T","R","A","N","S","P","O","R","T","E"," ","I","N","M","E","D","I","A","T","O"," ","S","L">>
T_IN_MEDIATO  == <<"I","N"," ","M","E","D","I","A","T","O">>
T_Si          == <<"S","i">>
T_No          == <<"N","o">>
T_FAVORABLE   == <<"F","A","V","O","R","A","B","L","E">>
T_favorable_con == <<"f","a","v","o","r","a","b","l","e"," "," ","c","o","n">>
T_NEGATIVA    == <<"N","E","G","A","T","I","V","A">>
T_100_000     == <<" ","1","0","0",".","0","0","0">>
T_90_000      == <<" ","9","0",".","0","0","0">>

\* dates as the document writes them: <<dd, mm, yyyy>>
D_15_06_2022 == <<15, 6, 2022>>
D_31_12_2022 == <<31, 12, 2022>>
D_01_01_2023 == <<1, 1, 2023>>
D_01_03_2023 == <<1, 3, 2023>>
D_15_06_2023 == <<15, 6, 2023>>
D_01_03_2024 == <<1, 3, 2024>>
D_01_03_2025 == <<1, 3, 2025>>
\* two digit groups that spell no date: strptime raises on it
D_31_02_2023 == <<31, 2, 2023>>

\* an inspection header line: the groups of date_pattern and the rest of
\* the line after the match
HeaderLine(fecha, resultado, remaining) ==
    [kind |-> "header", fecha_itv |-> fecha, fecha_cad |-> D_01_03_2025,
     estacion |-> "2801", resultado |-> resultado, remaining |-> remaining,
     text |-> ""]

\* a line of the inspection section that is no header line
OtherLine(kind, text) ==
    [kind |-> kind, fecha_itv |-> <<>>, fecha_cad |-> <<>>, estacion |-> "",
     resultado |-> <<>>, remaining |-> <<>>, text |-> text]

\* the spec's example: 100000 km on 2024-03-01 after 90000 km on 2023-03-01
ExampleItvs ==
    <<HeaderLine(D_01_03_2024, T_FAVORABLE, T_100_000),
      HeaderLine(D_01_03_2023, T_FAVORABLE, T_90_000)>>

\* all sequences over S of length at most n
SeqsUpTo(S, n) == UNION {[1..k -> S] : k \in 0..n}

Document(titular, renting, arrendatario, titulares, itvs, bajas) ==
    [matricula |-> "1234ABC", titular |-> titular, renting |-> renting,
     arrendatario |-> arrendatario, titulares |-> titulares,
     itvs |-> itvs, bajas |-> bajas]

(***************************************************************************)
(* One run of the pipeline on one document: DGTParser(pdf_path).parse()    *)
(* and then logic.process_vehicle(data), as both loops make it             *)
(***************************************************************************)
NoData == <<>>
NoResult == <<>>

\* parser.parse()
Parse ==
    /\ pc = "parse"
    /\ data' = parse(doc, now)
    /\ pc' = "process"
    /\ UNCHANGED <<cliente_nif, now, doc, result, text_a, text_b, matched,
                   runs, batch, idx, results, errors>>

\* logic.process_vehicle(data); runs keeps the result of every run made
Process ==
    /\ pc = "process"
    /\ result' = process_vehicle(cliente_nif, data, now)
    /\ runs' = Append(runs, result')
    /\ pc' = "done"
    /\ UNCHANGED <<cliente_nif, now, doc, data, text_a, text_b, matched,
                   batch, idx, results, errors>>

\* the variables a specification does not use
NoMatchVars == text_a = <<>> /\ text_b = <<>> /\ matched = <<>>
NoBatchVars == batch = <<>> /\ idx = 0 /\ results = <<>> /\ errors = <<>>

(***************************************************************************)
(* SpecItv: runs on documents whose inspection section varies              *)
(***************************************************************************)
\* longest inspection section of SpecItv, in header lines
MaxItvs == 3

ItvFechas == {D_01_03_2024, D_01_03_2023, D_31_02_2023}

\* outcome text and rest of the line
ItvOutcomes ==
    {<<T_FAVORABLE, T_100_000>>, <<T_FAVORABLE, T_90_000>>,
     <<T_FAVORABLE, <<>>>>, <<S_DESFAVORABLE, T_100_000>>,
     <<T_NEGATIVA, T_90_000>>, <<T_favorable_con, T_90_000>>}

ItvLines == {HeaderLine(f, o[1], o[2]) : f \in ItvFechas, o \in ItvOutcomes}

\* the day the runs of SpecItv and SpecComentarios are made
Today == <<2024, 7, 1>>

InitItv ==
    /\ pc = "parse"
    /\ cliente_nif = <<>>
    /\ now = Today
    /\ \E itvs \in SeqsUpTo(ItvLines, MaxItvs) :
          doc = Document(T_ACME_SL, T_No, <<>>, <<>>, itvs, <<>>)
    /\ data = NoData
    /\ result = NoResult
    /\ runs = <<>>
    /\ NoMatchVars
    /\ NoBatchVars

NextRun == Parse \/ Process

SpecItv == InitItv /\ [][NextRun]_vars

(***************************************************************************)
(* Claims on the inspection metrics, checked under SpecItv                 *)
(***************************************************************************)
\* the inspection history the rules read
Historial == data.historial_itvs

\* stated on the labels, not on the code's substring test
ValidPositive(h) ==
    {i \in 1..Len(h) : /\ h[i].resultado /= S_DESFAVORABLE
                       /\ h[i].resultado /= S_NEGATIVA
                       /\ h[i].kilometros > 0}

\* recency of the i-th record of h: an absent date is older than any date
Recency(h, i) ==
    IF h[i].fecha_itv = None THEN 0
    ELSE h[i].fecha_itv[1] * 10000 + h[i].fecha_itv[2] * 100 + h[i].fecha_itv[3]

\* the most recent record among those of S; of two records of one date the
\* one the document lists first
MostRecent(h, S) ==
    CHOOSE i \in S : \A j \in S \ {i} :
        \/ Recency(h, j) < Recency(h, i)
        \/ Recency(h, j) = Recency(h, i) /\ i < j

Ultima(h) == MostRecent(h, ValidPositive(h))
Penultima(h) == MostRecent(h, ValidPositive(h) \ {Ultima(h)})

\* the case of C1: two valid positive readings, the later one not smaller
\* and strictly later
C1_Case ==
    /\ pc = "done"
    /\ Cardinality(ValidPositive(Historial)) >= 2
    /\ LET u == Historial[Ultima(Historial)]
           p == Historial[Penultima(Historial)]
       IN /\ u.fecha_itv /= None
          /\ p.fecha_itv /= None
          /\ Recency(Historial, Ultima(Historial))
                > Recency(Historial, Penultima(Historial))
          /\ u.kilometros >= p.kilometros

\* C1: with at least two valid positive readings, the most recent one not
\* smaller than and strictly later than the second most recent one, the
\* result reports last = the most recent, penultimate = the second most
\* recent, elapsed days = the difference of their dates, km delta = the
\* difference of their readings and annual projection = the integer part
\* of delta * 365 / days.
C1_Metrics ==
    C1_Case =>
        LET u == Historial[Ultima(Historial)]
            p == Historial[Penultima(Historial)]
        IN /\ result.fecha_ult = u.fecha_itv
           /\ result.lectura_k_ult = u.kilometros
           /\ result.fecha_penulti = p.fecha_itv
           /\ result.lectura_k_penulti = p.kilometros
           /\ result.dias_entre = Ordinal(u.fecha_itv) - Ordinal(p.fecha_itv)
           /\ result.dias_entre > 0
           /\ result.km_itvs = u.kilometros - p.kilometros
           /\ result.km_1_ano * result.dias_entre <= result.km_itvs * 365
           /\ result.km_itvs * 365 < (result.km_1_ano + 1) * result.dias_entre

\* the example of the spec, behind a more recent failed inspection
C1_Witness ==
    /\ C1_Case
    /\ Len(Historial) = 3
    /\ \E i \in 1..3 : Historial[i].resultado = S_DESFAVORABLE
    /\ result.fecha_ult = <<2024, 3, 1>>
    /\ result.lectura_k_ult = 100000
    /\ result.fecha_penulti = <<2023, 3, 1>>
    /\ result.lectura_k_penulti = 90000
    /\ result.dias_entre = 366
    /\ result.km_itvs = 10000
    /\ result.km_1_ano = 9972

IsComment(msg) == \E k \in 1..Len(result.comentarios) : result.comentarios[k] = msg

\* C2: whenever the selected last inspection has a smaller reading than the
\* selected penultimate one, the commentary holds the reset message and km
\* delta and annual projection are 0.
C2_ResetFlagged ==
    (/\ pc = "done"
     /\ result.lectura_k_penulti > 0
     /\ result.lectura_k_ult > 0
     /\ result.lectura_k_ult < result.lectura_k_penulti)
    => /\ IsComment(MsgReseteo)
       /\ result.km_itvs = 0
       /\ result.km_1_ano = 0

\* the history of C3: one inspection, with a positive reading
C3_Case ==
    /\ pc = "done"
    /\ Len(Historial) = 1
    /\ Historial[1].kilometros > 0

\* C3 as stated: one inspection with a positive reading and no other gives
\* the 'only one consistent reading' message, penultimate fields absent
\* (read for an inspection that is not DESFAVORABLE or NEGATIVA).
C3_AsStated ==
    (C3_Case /\ Historial[1].resultado \notin {S_DESFAVORABLE, S_NEGATIVA}) =>
        /\ IsComment(MsgSoloUna)
        /\ result.fecha_penulti = None
        /\ result.lectura_k_penulti = 0

\* C3 amended: one inspection with a positive reading and no other never
\* gives the 'only one consistent reading' message: the commentary ends
\* with the 'not eligible' message when the inspection is valid and with
\* the 'no valid inspections' message when it is DESFAVORABLE or NEGATIVA;
\* penultimate and last date and reading remain absent.
C3_Amended ==
    C3_Case =>
        /\ ~IsComment(MsgSoloUna)
        /\ result.comentarios /= <<>>
        /\ result.comentarios[Len(result.comentarios)] =
              (IF Historial[1].resultado \in {S_DESFAVORABLE, S_NEGATIVA}
               THEN MsgSinValidas ELSE MsgNoCae)
        /\ result.fecha_penulti = None
        /\ result.lectura_k_penulti = 0
        /\ result.fecha_ult = None
        /\ result.lectura_k_ult = 0

C3_Witness ==
    /\ C3_Case
    /\ Historial[1].resultado = T_FAVORABLE
    /\ Historial[1].kilometros = 90000
    /\ result.comentarios = <<MsgNoCae>>

\* the closed set of outcome labels
S_FAVORABLE_CON ==
    <<"F","A","V","O","R","A","B","L","E","_","C","O","N">>
ClosedLabels == {T_FAVORABLE, S_FAVORABLE_CON, S_DESFAVORABLE, S_NEGATIVA}

\* C10: a record whose outcome label is outside the closed set stays in the
\* history (one record per header line) but is never in the valid set and
\* never selected as last or penultimate.
C10_UnknownLabelExcluded ==
    pc = "done" =>
        /\ Len(Historial) = Len(doc.itvs)
        /\ \A i \in 1..Len(Historial) :
              Historial[i].resultado \notin ClosedLabels =>
                 \A k \in 1..Len(valid_itvs(Historial)) :
                    valid_itvs(Historial)[k] /= Historial[i]
        /\ result.lectura_k_ult > 0 =>
              \E i \in 1..Len(Historial) :
                 /\ Historial[i].resultado \in ClosedLabels
                 /\ Historial[i].fecha_itv = result.fecha_ult
                 /\ Historial[i].kilometros = result.lectura_k_ult
        /\ result.lectura_k_penulti > 0 =>
              \E i \in 1..Len(Historial) :
                 /\ Historial[i].resultado \in ClosedLabels
                 /\ Historial[i].fecha_itv = result.fecha_penulti
                 /\ Historial[i].kilometros = result.lectura_k_penulti

(***************************************************************************)
(* SpecComentarios: runs on documents whose deregistration, ownership and  *)
(* lease sections vary, with and without a client filter                   *)
(***************************************************************************)
\* longest deregistration section, in rows
MaxBajas == 2
\* longest ownership section, in rows
MaxTitulares == 1
\* longest lease section, in rows
MaxArrendatarios == 1

BajaRow(inicio, fin) ==
    [inicio |-> inicio, fin |-> fin, tipo |-> "TEMPORAL", motivo |-> "VOLUNTARIA"]

BajaRows ==
    {BajaRow(D_31_12_2022, D_01_03_2024), BajaRow(D_01_01_2023, D_01_03_2024),
     BajaRow(D_15_06_2023, D_31_02_2023), BajaRow(D_31_02_2023, D_01_03_2024)}

\* an ownership row; the end date is the placeholder ---
TitularRow(inicio) == [inicio |-> inicio, fin |-> <<>>, tipo |-> "Titular"]

TitularRows == {TitularRow(D_15_06_2022), TitularRow(D_01_03_2023)}

ArrendatarioRow(inicio, fin, filiacion) ==
    [inicio |-> inicio, fin |-> fin, filiacion |-> filiacion]

ArrendatarioRows ==
    {ArrendatarioRow(D_15_06_2022, D_01_03_2024, T_ACME_SL),
     ArrendatarioRow(D_01_03_2024, D_01_03_2025, T_ACME_SL),
     ArrendatarioRow(D_01_03_2023, D_31_02_2023, T_OTRO_SL)}

InitComentarios ==
    /\ pc = "parse"
    /\ cliente_nif \in {<<>>, T_ACME}
    /\ now = Today
    /\ \E titular \in {T_ACME_SL, T_OTRO_SL}, renting \in {T_Si, T_No},
          arrendatario \in SeqsUpTo(ArrendatarioRows, MaxArrendatarios),
          titulares \in SeqsUpTo(TitularRows, MaxTitulares),
          itvs \in {<<>>, ExampleItvs},
          bajas \in SeqsUpTo(BajaRows, MaxBajas) :
          doc = Document(titular, renting, arrendatario, titulares, itvs, bajas)
    /\ data = NoData
    /\ result = NoResult
    /\ runs = <<>>
    /\ NoMatchVars
    /\ NoBatchVars

SpecComentarios == InitComentarios /\ [][NextRun]_vars

(***************************************************************************)
(* Claims on the commentary, checked under SpecComentarios                 *)
(***************************************************************************)
\* the eligibility rule let the run go on to the later rules
Eligible == is_eligible(cliente_nif, data, now)

\* fecha is a date on or after 2023-01-01, read off year, month and day
SinceCutoff(fecha) == fecha /= None /\ fecha[1] >= 2023

AllMetricsZero ==
    /\ result.lectura_k_penulti = 0
    /\ result.lectura_k_ult = 0
    /\ result.dias_entre = 0
    /\ result.km_itvs = 0
    /\ result.km_1_ano = 0
    /\ result.km_int = 0
    /\ result.km_nac = 0

C4_Case == pc = "done" /\ Historial = <<>> /\ Eligible

\* C4 as stated: an eligible vehicle with no inspections has exactly the
\* one 'no inspection history' message and all numeric metrics 0.
C4_AsStated ==
    C4_Case => result.comentarios = <<MsgSinHistorial>> /\ AllMetricsZero

\* no record of the deregistration, ownership or lease history draws
\* a message
NoEventComment ==
    /\ \A i \in 1..Len(data.historial_bajas) :
          ~SinceCutoff(data.historial_bajas[i].fecha_inicio)
    /\ \A i \in 1..Len(data.historial_titulares) :
          ~SinceCutoff(data.historial_titulares[i].fecha_inicio)
    /\ \/ ~(data.es_renting /\ data.historial_arrendatarios /= <<>>)
       \/ LET a == data.historial_arrendatarios[1]
          IN /\ ~SinceCutoff(a.fecha_inicio)
             /\ ~SinceCutoff(a.fecha_fin)
             /\ ~(a.fecha_inicio /= None /\ a.fecha_fin = None)

\* C4 amended: an eligible vehicle with no inspections has the 'no
\* inspection history' message as the last and only inspection message of
\* its commentary, after the deregistration, ownership and lease messages;
\* it is the whole commentary when no such record draws a message; all
\* numeric metrics are 0.
C4_Amended ==
    C4_Case =>
        /\ result.comentarios /= <<>>
        /\ result.comentarios[Len(result.comentarios)] = MsgSinHistorial
        /\ \A k \in 1..(Len(result.comentarios) - 1) :
              result.comentarios[k] \notin
                 {MsgSinHistorial, MsgNoCae, MsgSinKm, MsgSinValidas,
                  MsgSoloUna, MsgReseteo, MsgDias}
        /\ NoEventComment => result.comentarios = <<MsgSinHistorial>>
        /\ AllMetricsZero

\* no inspections, two deregistrations since the cutoff
C4_Witness ==
    /\ C4_Case
    /\ Len(result.comentarios) = 3
    /\ result.comentarios[1] =
          "Vehículo de baja del 01/01/2023 hasta el 01/03/2024"
    /\ result.comentarios[2] = "Vehículo de baja del 15/06/2023 hasta el Actual"

\* the deregistration messages the records of the history can draw
BajaMessages ==
    {MsgBaja(data.historial_bajas[i].fecha_inicio,
             data.historial_bajas[i].fecha_fin) :
        i \in {j \in 1..Len(data.historial_bajas) :
                  data.historial_bajas[j].fecha_inicio /= None}}

IsBajaMessage(msg) == msg \in BajaMessages

starts_since_cutoff(baja) == SinceCutoff(baja.fecha_inicio)

\* the messages C5 asks for: one per record that starts on or after the
\* cutoff, in the order of the records
BajaMessagesDue ==
    LET due == SelectSeq(data.historial_bajas, starts_since_cutoff)
    IN [k \in 1..Len(due) |-> MsgBaja(due[k].fecha_inicio, due[k].fecha_fin)]

\* C5 as stated: in every result of process_vehicle the deregistration
\* messages are those of the records that start on or after the cutoff, one
\* per record, and none for a record that starts before it.
C5_AsStated ==
    pc = "done" =>
        SelectSeq(result.comentarios, IsBajaMessage) = BajaMessagesDue

\* C5 amended: when the eligibility rule passes, the deregistration
\* messages are those of the records that start on or after the cutoff, one
\* per record, and none for a record that starts before it; when it does
\* not pass there is no deregistration message at all.
C5_Amended ==
    pc = "done" =>
        SelectSeq(result.comentarios, IsBajaMessage) =
            (IF Eligible THEN BajaMessagesDue ELSE <<>>)

\* two records since the cutoff, and both messages
C5_Witness ==
    /\ pc = "done"
    /\ Eligible
    /\ Len(data.historial_bajas) = 2
    /\ Len(BajaMessagesDue) = 2
    /\ SelectSeq(result.comentarios, IsBajaMessage) = BajaMessagesDue

(***************************************************************************)
(* SpecMatch: _matches_client on pairs of short texts                      *)
(***************************************************************************)
\* longest text of SpecMatch, in characters
MaxLen == 3

MatchAlphabet == {"a", "A", "B", " "}

T_tab_text == <<"\t", "i", "n", "\t", "\t", "m", "e", "d", " ">>

MatchTexts ==
    SeqsUpTo(MatchAlphabet, MaxLen) \cup {T_TRANSPORTE, T_IN_MEDIATO, T_tab_text}

InitMatch ==
    /\ pc = "match"
    /\ text_a \in MatchTexts
    /\ text_b \in MatchTexts
    /\ matched = <<>>
    /\ cliente_nif = <<>>
    /\ now = Today
    /\ doc = <<>>
    /\ data = NoData
    /\ result = NoResult
    /\ runs = <<>>
    /\ NoBatchVars

\* BusinessLogic(text_b)._matches_client(text_a), and the same call with
\* the two texts exchanged
Match ==
    /\ pc = "match"
    /\ matched' = <<matches_client(text_b, text_a),
                    matches_client(text_a, text_b)>>
    /\ pc' = "done"
    /\ UNCHANGED <<cliente_nif, now, doc, data, result, text_a, text_b,
                   runs, batch, idx, results, errors>>

NextMatch == Match

SpecMatch == InitMatch /\ [][NextMatch]_vars

\* C6: matching text a against client b gives the same boolean as matching
\* text b against client a, empty texts included.
C6_Symmetric == pc = "done" => matched[1] = matched[2]

\* a text and a client that differ in case and word-splitting
C6_Witness ==
    /\ pc = "done"
    /\ text_a = <<"a", " ", "B">>
    /\ text_b = <<"A", "B">>
    /\ matched = <<TRUE, TRUE>>

\* uppercase, and every run of whitespace turned into one space
RECURSIVE CollapsedFrom(_, _)
CollapsedFrom(s, i) ==
    IF i > Len(s) THEN <<>>
    ELSE IF s[i] \in Whitespace
         THEN (IF i > 1 /\ s[i - 1] \in Whitespace THEN <<>> ELSE <<" ">>)
                  \o CollapsedFrom(s, i + 1)
         ELSE <<UpperChar(s[i])>> \o CollapsedFrom(s, i + 1)

Collapsed(s) == CollapsedFrom(s, 1)

NotSpace(c) == c /= " "

Spaceless(s) == SelectSeq(Collapsed(s), NotSpace)

\* the rule of spec 4.4
StatedMatch(a, b) ==
    \/ Contains(Collapsed(a), Collapsed(b))
    \/ Contains(Collapsed(b), Collapsed(a))
    \/ Contains(Spaceless(a), Spaceless(b))
    \/ Contains(Spaceless(b), Spaceless(a))

\* C7: with a client configured the match succeeds exactly when, after
\* uppercasing and collapsing whitespace runs, one text contains the other,
\* or does so once all spaces are removed from both.
C7_MatchRule ==
    (pc = "done" /\ text_b /= <<>>) => matched[1] = StatedMatch(text_a, text_b)

\* the client 'IN MEDIATO' matches the text 'TRANSPORTE INMEDIATO SL'
C7_Witness ==
    /\ pc = "done"
    /\ text_a = T_TRANSPORTE
    /\ text_b = T_IN_MEDIATO
    /\ matched[1] = TRUE

(***************************************************************************)
(* SpecRerun: the pipeline run again on the same document text, with the   *)
(* clock moving between and within runs                                    *)
(***************************************************************************)
\* number of runs made on one text
MaxRuns == 2

\* a later day datetime.now() falls on
LaterDay == <<2025, 7, 1>>

InitRerun ==
    /\ pc = "parse"
    /\ cliente_nif \in {<<>>, T_ACME}
    /\ now = Today
    /\ \E titular \in {T_ACME_SL, T_OTRO_SL}, renting \in {T_Si, T_No},
          arrendatario \in SeqsUpTo(ArrendatarioRows, MaxArrendatarios),
          itvs \in {<<>>, ExampleItvs} :
          doc = Document(titular, renting, arrendatario, <<>>, itvs, <<>>)
    /\ data = NoData
    /\ result = NoResult
    /\ runs = <<>>
    /\ NoMatchVars
    /\ NoBatchVars

\* the same text is handed to the pipeline again
Rerun ==
    /\ pc = "done"
    /\ Len(runs) < MaxRuns
    /\ pc' = "parse"
    /\ data' = NoData
    /\ result' = NoResult
    /\ UNCHANGED <<cliente_nif, now, doc, text_a, text_b, matched, runs,
                   batch, idx, results, errors>>

\* time passes: datetime.now() answers a later day from here on
Tick ==
    /\ Ordinal(now) < Ordinal(LaterDay)
    /\ now' = LaterDay
    /\ UNCHANGED <<pc, cliente_nif, doc, data, result, text_a, text_b,
                   matched, runs, batch, idx, results, errors>>

NextRerun == Parse \/ Process \/ Rerun \/ Tick

SpecRerun == InitRerun /\ [][NextRerun]_vars

\* C8: the runs made on one document text with one client filter give
\* identical results, whatever the time of each run.
C8_Deterministic ==
    \A i \in 1..Len(runs), j \in 1..Len(runs) : runs[i] = runs[j]

(***************************************************************************)
(* SpecBatch: the loop of main() and the loop of the Streamlit page over   *)
(* a batch of documents.  A document is its text and whether pdfplumber    *)
(* can read it: DGTParser._extract_text raises on one it cannot read.      *)
(***************************************************************************)
\* longest batch, in documents
MaxBatch == 3

BatchDocuments ==
    {Document(T_ACME_SL, T_No, <<>>, <<>>, ExampleItvs, <<>>),
     Document(T_OTRO_SL, T_No, <<>>, <<>>, <<>>,
              <<BajaRow(D_01_01_2023, D_01_03_2024)>>)}

BatchEntries == [readable : BOOLEAN, doc : BatchDocuments]

InitBatch ==
    /\ \/ pc = "main" /\ cliente_nif = <<>>
       \/ pc = "app" /\ cliente_nif \in {<<>>, T_ACME}
    /\ now = Today
    /\ batch \in SeqsUpTo(BatchEntries, MaxBatch)
    /\ idx = 1
    /\ results = <<>>
    /\ errors = <<>>
    /\ doc = <<>>
    /\ data = NoData
    /\ result = NoResult
    /\ runs = <<>>
    /\ NoMatchVars

\* fmt of the display row: strftime('%d/%m/%Y') or '-'
fmt_date(fecha) == IF fecha /= None THEN Strftime(fecha) ELSE "-"

\* the row the Streamlit page builds from a result
app_row(res) ==
    [matricula         |-> res.matricula,
     fecha_penulti     |-> fmt_date(res.fecha_penulti),
     lectura_k_penulti |-> res.lectura_k_penulti,
     fecha_ult         |-> fmt_date(res.fecha_ult),
     lectura_k_ult     |-> res.lectura_k_ult,
     dias_entre        |-> res.dias_entre,
     km_itvs           |-> res.km_itvs,
     km_1_ano          |-> res.km_1_ano,
     km_int            |-> res.km_int,
     km_nac            |-> res.km_nac,
     comentarios       |-> JoinSemicolon(res.comentarios)]

\* one turn of the loop of main(): no exception is caught, so a document
\* that cannot be read ends main() with the traceback, before the CSV
MainStep ==
    /\ pc = "main"
    /\ idx <= Len(batch)
    /\ IF batch[idx].readable
       THEN /\ results' = Append(results,
                  process_vehicle(cliente_nif, parse(batch[idx].doc, now), now))
            /\ idx' = idx + 1
            /\ pc' = "main"
       ELSE /\ pc' = "aborted"
            /\ UNCHANGED <<idx, results>>
    /\ UNCHANGED <<cliente_nif, now, doc, data, result, text_a, text_b,
                   matched, runs, batch, errors>>

\* the loop of main() is over: the CSV is written from results
MainEnd ==
    /\ pc = "main"
    /\ idx > Len(batch)
    /\ pc' = "finished"
    /\ UNCHANGED <<cliente_nif, now, doc, data, result, text_a, text_b,
                   matched, runs, batch, idx, results, errors>>

\* one turn of the loop of the page: try ... except Exception: st.error
AppStep ==
    /\ pc = "app"
    /\ idx <= Len(batch)
    /\ IF batch[idx].readable
       THEN /\ results' = Append(results,
                  app_row(process_vehicle(cliente_nif,
                                          parse(batch[idx].doc, now), now)))
            /\ UNCHANGED errors
       ELSE /\ errors' = Append(errors, idx)
            /\ UNCHANGED results
    /\ idx' = idx + 1
    /\ UNCHANGED <<pc, cliente_nif, now, doc, data, result, text_a, text_b,
                   matched, runs, batch>>

\* the loop of the page is over: the table is shown from results
AppEnd ==
    /\ pc = "app"
    /\ idx > Len(batch)
    /\ pc' = "finished"
    /\ UNCHANGED <<cliente_nif, now, doc, data, result, text_a, text_b,
                   matched, runs, batch, idx, results, errors>>

NextBatch == MainStep \/ MainEnd \/ AppStep \/ AppEnd

SpecBatch == InitBatch /\ [][NextBatch]_vars

\* the documents of the batch that can be read
Readable == {i \in 1..Len(batch) : batch[i].readable}

\* C9: a failure on one document does not abort the batch: when the loop
\* is left, every document that did not fail has been processed and has
\* its result.
C9_BatchIsolated ==
    pc \in {"aborted", "finished"} => Len(results) = Cardinality(Readable)

(***************************************************************************)
(* SpecRenting: runs on documents whose lease section has up to MaxLeases  *)
(* rows, with a client filter or none, and a titleholder that matches the  *)
(* client, does not match it, or was not found in the text                 *)
(***************************************************************************)
\* longest lease section of SpecRenting, in rows
MaxLeases == 2

D_02_03_2024 == <<2, 3, 2024>>
D_03_03_2024 == <<3, 3, 2024>>

\* lease rows: 427 and 426 days long, short and over before the cutoff,
\* without a readable end date (488 and 122 days before Today), another
\* lessee's long lease still running, without a readable start date, and
\* the client's lease still running
LeaseRows ==
    {ArrendatarioRow(D_01_01_2023, D_03_03_2024, T_ACME_SL),
     ArrendatarioRow(D_01_01_2023, D_02_03_2024, T_ACME_SL),
     ArrendatarioRow(D_15_06_2022, D_31_12_2022, T_ACME_SL),
     ArrendatarioRow(D_01_03_2023, D_31_02_2023, T_ACME_SL),
     ArrendatarioRow(D_01_03_2024, D_31_02_2023, T_ACME_SL),
     ArrendatarioRow(D_15_06_2022, D_01_03_2025, T_OTRO_SL),
     ArrendatarioRow(D_31_02_2023, D_01_03_2024, T_ACME_SL),
     ArrendatarioRow(D_01_03_2024, D_01_03_2025, T_ACME_SL)}

InitRenting ==
    /\ pc = "parse"
    /\ cliente_nif \in {<<>>, T_ACME}
    /\ now = Today
    /\ \E titular \in {T_ACME_SL, T_OTRO_SL, <<>>}, renting \in {T_Si, T_No},
          arrendatario \in SeqsUpTo(LeaseRows, MaxLeases),
          itvs \in {<<>>, ExampleItvs} :
          doc = Document(titular, renting, arrendatario, <<>>, itvs, <<>>)
    /\ data = NoData
    /\ result = NoResult
    /\ runs = <<>>
    /\ NoMatchVars
    /\ NoBatchVars

SpecRenting == InitRenting /\ [][NextRun]_vars

(***************************************************************************)
(* Claims on eligibility and lease commentary, checked under SpecRenting   *)
(***************************************************************************)
\* the result is the one of a vehicle marked ineligible by RULE 1 & 2: the
\* inspection sections of SpecRenting (none, or two readings on two days)
\* never draw this message from the metrics step
MarkedIneligible == result.comentarios = <<MsgNoCae>>

\* a client filter is configured and the titleholder does not match it
TitularityFailed ==
    cliente_nif /= <<>> /\ ~StatedMatch(data.titular_actual, cliente_nif)

\* days from start to end of a lease record, the day of the run standing
\* for an absent end
LeaseDays(rec) ==
    (IF rec.fecha_fin /= None THEN Ordinal(rec.fecha_fin) ELSE Ordinal(now))
        - Ordinal(rec.fecha_inicio)

\* the renting rule as stated: under lease, and the current lessee matches
\* the client or a record of the client lasts more than 14 months of
\* 30.44 days (14 * 30.44 = 426.16)
StatedRenting ==
    /\ data.es_renting
    /\ \/ /\ data.arrendatario_actual /= <<>>
          /\ StatedMatch(data.arrendatario_actual, cliente_nif)
       \/ \E i \in 1..Len(data.historial_arrendatarios) :
             LET rec == data.historial_arrendatarios[i]
             IN /\ StatedMatch(rec.filiacion, cliente_nif)
                /\ rec.fecha_inicio /= None
                /\ LeaseDays(rec) * 100 > 42616

C11_Case == pc = "done" /\ TitularityFailed

\* C11: with a client filter and titularity failed, the renting check
\* passes exactly when the lease flag is set and either the current lessee
\* matches the client or some lease record of the client lasts more than
\* 14 months (days / 30.44, the day of the run as end when the end is
\* absent); with the flag unset it never passes.
C11_RentingRule ==
    C11_Case =>
        /\ ~MarkedIneligible <=> StatedRenting
        /\ ~data.es_renting => MarkedIneligible

\* the client's second record lasts 427 days and passes, after a first one
\* of 426 days that does not
C11_Witness ==
    /\ C11_Case
    /\ data.es_renting
    /\ data.arrendatario_actual = <<>>
    /\ Len(data.historial_arrendatarios) = 2
    /\ LeaseDays(data.historial_arrendatarios[1]) = 426
    /\ LeaseDays(data.historial_arrendatarios[2]) = 427
    /\ ~MarkedIneligible

(***************************************************************************)
(* Claim on the ineligible result, checked under SpecComentarios           *)
(***************************************************************************)
C12_Case == pc = "done" /\ TitularityFailed /\ ~StatedRenting

\* C12: when neither the titularity check nor the renting check passes,
\* the commentary of the result is exactly the one ineligibility message
\* and no later rule has run: no deregistration, ownership, lease or
\* inspection message, and every date, reading and metric at its initial
\* value, whatever the histories of the vehicle hold.
C12_IneligibleStops ==
    C12_Case =>
        /\ result.comentarios = <<MsgNoCae>>
        /\ result.matricula = data.matricula
        /\ result.fecha_ult = None
        /\ result.fecha_penulti = None
        /\ AllMetricsZero

\* an ineligible vehicle whose deregistration, ownership, lease and
\* inspection histories would each draw a message or a metric
C12_Witness ==
    /\ C12_Case
    /\ data.es_renting
    /\ Len(data.historial_arrendatarios) = 1
    /\ data.historial_arrendatarios[1].fecha_fin = None
    /\ Len(data.historial_bajas) = 2
    /\ SinceCutoff(data.historial_bajas[1].fecha_inicio)
    /\ Len(data.historial_titulares) = 1
    /\ SinceCutoff(data.historial_titulares[1].fecha_inicio)
    /\ Len(data.historial_itvs) = 2
    /\ result.comentarios = <<MsgNoCae>>

(***************************************************************************)
(* Claim on the lease commentary, checked under SpecRenting                *)
(***************************************************************************)
\* the lease messages one record draws, in the order they are written
LeaseMessagesOf(rec) ==
    (IF SinceCutoff(rec.fecha_inicio)
     THEN <<MsgInicioRenting(rec.fecha_inicio)>> ELSE <<>>)
    \o (IF SinceCutoff(rec.fecha_fin)
        THEN <<MsgFinRenting(rec.fecha_fin)>> ELSE <<>>)
    \o (IF rec.fecha_inicio /= None /\ rec.fecha_fin = None
        THEN <<MsgRentingActivo>> ELSE <<>>)

\* every lease message a record of the history could draw
LeaseMessages ==
    UNION {{LeaseMessagesOf(data.historial_arrendatarios[i])[k] :
               k \in 1..Len(LeaseMessagesOf(data.historial_arrendatarios[i]))} :
           i \in 1..Len(data.historial_arrendatarios)}

IsLeaseMessage(msg) == msg \in LeaseMessages

\* the lease record with the latest start date
MostRecentLease ==
    LET h == data.historial_arrendatarios
    IN h[CHOOSE i \in 1..Len(h) :
            \A j \in 1..Len(h) :
                Ordinal(h[j].fecha_inicio) <= Ordinal(h[i].fecha_inicio)]

\* every record has a start date and no two start on the same day, so
\* that the most recent record is one record
StartsDistinct ==
    LET h == data.historial_arrendatarios
    IN /\ \A i \in 1..Len(h) : h[i].fecha_inicio /= None
       /\ \A i \in 1..Len(h), j \in 1..Len(h) :
             i /= j => h[i].fecha_inicio /= h[j].fecha_inicio

\* C13: for a vehicle under lease with a lease history, the lease messages
\* of the commentary are those of exactly one record, the one with the
\* latest start date, wherever the document lists it: 'started' iff its
\* start is on or after the cutoff, 'ended' iff its end is, 'currently
\* active' iff it has a start and no end; no other record draws a lease
\* message, and a vehicle whose lease flag is unset has none.
C13_MostRecentLease ==
    (pc = "done" /\ ~MarkedIneligible /\ StartsDistinct) =>
        SelectSeq(result.comentarios, IsLeaseMessage) =
            (IF data.es_renting /\ data.historial_arrendatarios /= <<>>
             THEN LeaseMessagesOf(MostRecentLease)
             ELSE <<>>)

(***************************************************************************)
(* Claim on an empty titleholder, checked under SpecRenting                *)
(***************************************************************************)
C18_Case == pc = "done" /\ cliente_nif /= <<>> /\ data.titular_actual = <<>>

\* C18: with a non-empty client filter, a vehicle whose titleholder name
\* is empty passes the titularity check, the empty text being contained in
\* every client text: it is never marked ineligible by the eligibility
\* rule, whatever its lease data.
C18_EmptyTitularPasses ==
    C18_Case =>
        /\ ~MarkedIneligible
        /\ \A k \in 1..Len(result.comentarios) :
              result.comentarios[k] /= MsgNoCae

\* no titleholder, a filter, a lease flag and one lease of another lessee:
\* the renting check alone would not pass
C18_Witness ==
    /\ C18_Case
    /\ data.es_renting
    /\ Len(data.historial_arrendatarios) = 1
    /\ data.historial_arrendatarios[1].filiacion = T_OTRO_SL
    /\ ~StatedRenting
    /\ result.comentarios = <<"Fin de renting el 01/03/2025", MsgSinHistorial>>

(***************************************************************************)
(* SpecLines: runs on documents whose inspection section is any sequence   *)
(* of up to MaxLines lines of the five kinds the loop tells apart          *)
(***************************************************************************)
\* longest inspection section of SpecLines, in lines
MaxLines == 4

L_blank  == OtherLine("blank", "")
L_colhdr == OtherLine("colhdr", "Fecha ITV Fecha caducidad Estación Resultado Km")
L_leve   == OtherLine("defect", "01.02 LEVE")
L_grave  == OtherLine("defect", "05.01 GRAVE")
L_noise  == OtherLine("noise", "continua en la hoja siguiente")
L_itv_2024 == HeaderLine(D_01_03_2024, T_FAVORABLE, T_100_000)
L_itv_2023 == HeaderLine(D_01_03_2023, T_NEGATIVA, T_90_000)

SectionLines ==
    {L_blank, L_colhdr, L_leve, L_grave, L_noise, L_itv_2024, L_itv_2023}

InitLines ==
    /\ pc = "parse"
    /\ cliente_nif = <<>>
    /\ now = Today
    /\ \E itvs \in SeqsUpTo(SectionLines, MaxLines) :
          doc = Document(T_ACME_SL, T_No, <<>>, <<>>, itvs, <<>>)
    /\ data = NoData
    /\ result = NoResult
    /\ runs = <<>>
    /\ NoMatchVars
    /\ NoBatchVars

SpecLines == InitLines /\ [][NextRun]_vars

(***************************************************************************)
(* Claim on the line classifier, checked under SpecLines                   *)
(***************************************************************************)
\* the positions of the record-header lines of the section
HeaderPositions == {i \in 1..Len(doc.itvs) : doc.itvs[i].kind = "header"}

\* the position of the k-th record-header line
HeaderPosition(k) ==
    CHOOSE i \in HeaderPositions :
        Cardinality({j \in HeaderPositions : j < i}) = k - 1

\* the position just after the lines that belong to the k-th header line
HeaderReach(k) ==
    IF k < Cardinality(HeaderPositions)
    THEN HeaderPosition(k + 1)
    ELSE Len(doc.itvs) + 1

IsDefectLine(line) == line.kind = "defect"

\* the texts of the continuation lines between the k-th header line and
\* the next one (or the end of the section), in their order
DefectsAfter(k) ==
    LET ds == SelectSeq(SubSeq(doc.itvs, HeaderPosition(k) + 1,
                               HeaderReach(k) - 1), IsDefectLine)
    IN [n \in 1..Len(ds) |-> ds[n].text]

C14_Case == pc \in {"process", "done"}

\* C14: over any sequence of lines the classifier emits exactly one record
\* per record-header line, in the order of the header lines (so a header
\* met while a record is open emits the open record, and the record open
\* at the end of the section is emitted); each continuation line is
\* appended to the record of the nearest header line before it, one met
\* before any header line is dropped, and blank, column-header and noise
\* lines change no record.
C14_OneRecordPerHeader ==
    C14_Case =>
        /\ Len(data.historial_itvs) = Cardinality(HeaderPositions)
        /\ \A k \in 1..Len(data.historial_itvs) :
              LET itv  == data.historial_itvs[k]
                  line == doc.itvs[HeaderPosition(k)]
              IN /\ itv.fecha_itv = <<line.fecha_itv[3], line.fecha_itv[2],
                                      line.fecha_itv[1]>>
                 /\ itv.resultado = line.resultado
                 /\ itv.kilometros =
                       (IF line.remaining = T_100_000 THEN 100000 ELSE 90000)
                 /\ itv.defectos = JoinSemicolon(DefectsAfter(k))

\* a continuation line before any header line, a header line with one
\* continuation line, and a second header line that ends the section
C14_Witness ==
    /\ C14_Case
    /\ doc.itvs = <<L_leve, L_itv_2024, L_grave, L_itv_2023>>
    /\ Len(data.historial_itvs) = 2
    /\ data.historial_itvs[1].defectos = "05.01 GRAVE"
    /\ data.historial_itvs[2].defectos = ""

(***************************************************************************)
(* Further claims on the inspection metrics, checked under SpecItv         *)
(***************************************************************************)
\* the records that are not DESFAVORABLE or NEGATIVA
ValidRecords(h) ==
    {i \in 1..Len(h) : h[i].resultado \notin {S_DESFAVORABLE, S_NEGATIVA}}

\* the metrics step left the result as it found it, but for its message
NothingButMessage ==
    /\ result.comentarios = <<MsgNoCae>>
    /\ result.fecha_ult = None
    /\ result.fecha_penulti = None
    /\ AllMetricsZero

C15_Case == pc = "done" /\ Cardinality(ValidPositive(Historial)) = 1

\* C15: when exactly one valid inspection has a positive reading, however
\* many valid ones without a reading there are, the metrics step appends
\* the 'not eligible' message and stops: last and penultimate dates stay
\* absent, both readings, elapsed days, km delta and projection stay 0.
C15_SingleReadingStops == C15_Case => NothingButMessage

\* one reading among three valid inspections
C15_Witness ==
    /\ C15_Case
    /\ Cardinality(ValidRecords(Historial)) = 3
    /\ NothingButMessage

C16_Case ==
    /\ pc = "done"
    /\ Cardinality(ValidPositive(Historial)) >= 2
    /\ LET u == Historial[Ultima(Historial)]
           p == Historial[Penultima(Historial)]
       IN u.fecha_itv = p.fecha_itv /\ u.kilometros = p.kilometros

\* C16: when the two most recent valid positive readings have the same
\* date and the same reading, the metrics step treats the vehicle as
\* ineligible and writes nothing but the message: dates stay absent and
\* readings, elapsed days, km delta and projection stay 0, also when an
\* older, different positive reading exists.
C16_DuplicateStops == C16_Case => NothingButMessage

\* twice 100000 km on 2024-03-01 and an older reading of 90000 km
C16_Witness ==
    /\ C16_Case
    /\ Cardinality(ValidPositive(Historial)) = 3
    /\ Historial[Ultima(Historial)].fecha_itv = <<2024, 3, 1>>
    /\ Historial[Ultima(Historial)].kilometros = 100000
    /\ \E i \in ValidPositive(Historial) :
          /\ Historial[i].fecha_itv = <<2023, 3, 1>>
          /\ Historial[i].kilometros = 90000
    /\ NothingButMessage

\* C17: in every result, for a history in any order and with absent dates,
\* elapsed days, km delta and annual projection are not negative, and a
\* last date is not earlier than a penultimate date.
C17_NonNegative ==
    pc = "done" =>
        /\ result.dias_entre >= 0
        /\ result.km_itvs >= 0
        /\ result.km_1_ano >= 0
        /\ (result.fecha_ult /= None /\ result.fecha_penulti /= None) =>
              \/ result.fecha_ult[1] > result.fecha_penulti[1]
              \/ /\ result.fecha_ult[1] = result.fecha_penulti[1]
                 /\ result.fecha_ult[2] > result.fecha_penulti[2]
              \/ /\ result.fecha_ult[1] = result.fecha_penulti[1]
                 /\ result.fecha_ult[2] = result.fecha_penulti[2]
                 /\ result.fecha_ult[3] >= result.fecha_penulti[3]

\* a history the document lists oldest first, an undated record between
C17_Witness ==
    /\ pc = "done"
    /\ Len(Historial) = 3
    /\ Historial[1].fecha_itv = <<2023, 3, 1>>
    /\ Historial[2].fecha_itv = None
    /\ Historial[3].fecha_itv = <<2024, 3, 1>>
    /\ result.fecha_ult = <<2024, 3, 1>>
    /\ result.fecha_penulti = <<2023, 3, 1>>
    /\ result.dias_entre = 366
    /\ result.km_itvs = 10000

====
